---- MODULE Spec2Model ----
(***************************************************************************)
(* The task service of hixi4/to-do-list: an in-memory, mutex-guarded map   *)
(* of tasks fronted by a Redis cache under the single key "tasks".         *)
(*                                                                         *)
(* The repository holds three builds of the same service, each a separate  *)
(* package main.  One behaviour of this model runs one of them:            *)
(*   "main"      src/main.go            Redis cache, server-assigned ids   *)
(*   "part_000"  src/unnamed/part_000   no cache,    server-assigned ids   *)
(*   "part_001"  src/unnamed/part_001   Redis cache, client-supplied ids   *)
(*                                                                         *)
(* Every HTTP request is served by its own goroutine (net/http); a         *)
(* handler below is cut into the steps at which other goroutines, or the   *)
(* Redis server, can observe or change shared state: each Redis call, each *)
(* critical section on the map, and the writing of the response.  What is  *)
(* local to the goroutine (parsing the path, decoding the body, waiting    *)
(* for the mutex) belongs to the step that follows it: a step that starts  *)
(* with mutex.Lock() is enabled only when the mutex is free.               *)
(*                                                                         *)
(* Redis is an external collaborator.  A call either takes effect and      *)
(* returns, or returns an error and leaves the key as it was; an entry     *)
(* written with a TTL can expire at any moment.                            *)
(***************************************************************************)
EXTENDS Integers, Sequences, FiniteSets, TLC

VARIABLES
    variant,        \* which of the three builds is running
    tasks,          \* var tasks: the map id -> Task
    nextID,         \* var nextID (main.go, part_000)
    mutex,          \* var mutex / tasksMutex: "free" or the request holding it
    cache,          \* Redis key "tasks": <<>> when absent, <<bytes>> when live
    budget,         \* the requests the environment may still send: writes, reads
    pc,             \* per request goroutine: the step it is at
    req,            \* per request goroutine: the inbound HTTP request
    task,           \* handler local `task`
    exists,         \* handler local `exists` (part_001: whether the key was present)
    jsonData,       \* handler local `jsonData`: <<>> or <<bytes>>
    val,            \* handler local `val`: <<>> or <<bytes>>
    err,            \* handler local `err` of the last Redis call
    resp,           \* what the handler wrote to the http.ResponseWriter
    createLog,      \* history: identifiers assigned by addTask, in store order
    returned,       \* history: identifiers carried by addTask's 201 responses
    calls,          \* history, per request: the Redis calls it issued
    setAfterDel,    \* history, per request: a Set took effect after its Del
    hitLog,         \* history: values served by cache hits since the last
                    \*   store mutation, Del call or expiry
    delFailedEver   \* history: some write's Del has returned an error

vars == <<variant, tasks, nextID, mutex, cache, budget, pc, req, task, exists,
          jsonData, val, err, resp, createLog, returned, calls, setAfterDel,
          hitLog, delFailedEver>>

storeVars == <<tasks, nextID>>
localVars == <<task, exists, jsonData, val, err>>
histVars == <<createLog, returned, calls, setAfterDel, hitLog, delFailedEver>>

(***************************************************************************)
(* Bounds of the model.                                                    *)
(***************************************************************************)
MaxWrites == 2

MaxReads == 1

\* a read budget that is never used up
Unlimited == 0 - 1

Procs == {"r1", "r2"}

Free == "free"

(***************************************************************************)
(* Data: Task, its JSON encoding, request bodies and paths.                *)
(***************************************************************************)
EmptyObj == [k \in {} |-> k]

\* type Task struct of main.go and part_000, zero-valued (`var task Task`)
Task == [ID |-> 0, Name |-> "", Completed |-> FALSE]

\* type Task struct of part_001, zero-valued
TaskP1 == [ID |-> "", Title |-> "", Completed |-> FALSE]

\* A request body is JSON text: either it does not parse, or it is an
\* object holding some of the fields.
BadBody == [syntaxOK |-> FALSE, obj |-> EmptyObj]

NoBody == [syntaxOK |-> TRUE, obj |-> EmptyObj]

\* the body of the PUT requests: it names another id than the path does
PutBody == [syntaxOK |-> TRUE, obj |-> [id |-> 2, name |-> "B", completed |-> TRUE]]

PutBodyP1 == [syntaxOK |-> TRUE, obj |-> [id |-> "b", title |-> "B", completed |-> TRUE]]

Bodies ==
    { [syntaxOK |-> TRUE, obj |-> [name |-> "A"]],
      PutBody,
      BadBody }

BodiesP1 ==
    { [syntaxOK |-> TRUE, obj |-> [id |-> "a", title |-> "A"]],
      PutBodyP1,
      BadBody }

\* the {id} segment of /tasks/{id}
Paths == {"1", "2", "x"}

PathsP1 == {"a", "b"}

\* json.NewDecoder(r.Body).Decode(&task) into a zero Task: fields present in
\* the object overwrite the zero values, a syntax error is returned as err.
Decode(body) ==
    [err  |-> ~body.syntaxOK,
     task |-> IF ~body.syntaxOK THEN Task
              ELSE [ID        |-> IF "id" \in DOMAIN body.obj
                                  THEN body.obj.id ELSE Task.ID,
                    Name      |-> IF "name" \in DOMAIN body.obj
                                  THEN body.obj.name ELSE Task.Name,
                    Completed |-> IF "completed" \in DOMAIN body.obj
                                  THEN body.obj.completed ELSE Task.Completed]]

DecodeP1(body) ==
    [err  |-> ~body.syntaxOK,
     task |-> IF ~body.syntaxOK THEN TaskP1
              ELSE [ID        |-> IF "id" \in DOMAIN body.obj
                                  THEN body.obj.id ELSE TaskP1.ID,
                    Title     |-> IF "title" \in DOMAIN body.obj
                                  THEN body.obj.title ELSE TaskP1.Title,
                    Completed |-> IF "completed" \in DOMAIN body.obj
                                  THEN body.obj.completed ELSE TaskP1.Completed]]

\* strconv.Atoi on the path segment
Atoi(s) ==
    CASE s = "1" -> [err |-> FALSE, n |-> 1]
      [] s = "2" -> [err |-> FALSE, n |-> 2]
      [] s = "3" -> [err |-> FALSE, n |-> 3]
      [] OTHER   -> [err |-> TRUE,  n |-> 0]

\* encoding/json of one Task, by the struct tags
MarshalTask(t) == [id |-> t.ID, name |-> t.Name, completed |-> t.Completed]

MarshalTaskP1(t) == [id |-> t.ID, title |-> t.Title, completed |-> t.Completed]

\* json.Marshal(taskList): a JSON array, element by element
Marshal(taskList) ==
    [i \in 1..Len(taskList) |->
        IF variant = "part_001" THEN MarshalTaskP1(taskList[i])
        ELSE MarshalTask(taskList[i])]

\* `for _, task := range tasks { taskList = append(taskList, task) }`:
\* Go iterates a map in an unspecified order, so every order is a result.
TaskLists ==
    LET n == Cardinality(DOMAIN tasks)
        orders == {o \in [1..n -> DOMAIN tasks] :
                       \A i, j \in 1..n : i # j => o[i] # o[j]}
    IN  {[i \in 1..n |-> tasks[o[i]]] : o \in orders}

\* tasks[id] = t
Put(id, t) ==
    [k \in DOMAIN tasks \cup {id} |-> IF k = id THEN t ELSE tasks[k]]

\* delete(tasks, id)
Remove(id) == [k \in DOMAIN tasks \ {id} |-> tasks[k]]

(***************************************************************************)
(* Requests and responses.                                                 *)
(***************************************************************************)
NoReq == [method |-> "", path |-> "", body |-> NoBody]

NoResp == [status |-> 0, kind |-> "none", data |-> <<>>]

\* w.Write(json) / json.NewEncoder(w).Encode(v), with the status written before
JsonResp(status, data) == [status |-> status, kind |-> "json", data |-> <<data>>]

\* http.Error(w, msg, status)
ErrorResp(status, msg) == [status |-> status, kind |-> "text", data |-> <<msg>>]

\* w.WriteHeader(status) alone
EmptyResp(status) == [status |-> status, kind |-> "empty", data |-> <<>>]

IsWrite(p) == req[p].method \in {"POST", "PUT", "DELETE"}

Call(p, op, res) == calls' = [calls EXCEPT ![p] = Append(@, [op |-> op, res |-> res])]

Goto(p, label) == pc' = [pc EXCEPT ![p] = label]

Respond(p, r) == resp' = [resp EXCEPT ![p] = r]

(***************************************************************************)
(* Initial state: the package-level variables as declared.                 *)
(***************************************************************************)
InitWith(variants, b) ==
    /\ variant \in variants
    /\ tasks = EmptyObj
    /\ nextID = 1
    /\ mutex = Free
    /\ cache = <<>>
    /\ budget = b
    /\ pc = [p \in Procs |-> "idle"]
    /\ req = [p \in Procs |-> NoReq]
    /\ task = [p \in Procs |-> IF variant = "part_001" THEN TaskP1 ELSE Task]
    /\ exists = [p \in Procs |-> FALSE]
    /\ jsonData = [p \in Procs |-> <<>>]
    /\ val = [p \in Procs |-> <<>>]
    /\ err = [p \in Procs |-> "nil"]
    /\ resp = [p \in Procs |-> NoResp]
    /\ createLog = <<>>
    /\ returned = <<>>
    /\ calls = [p \in Procs |-> <<>>]
    /\ setAfterDel = [p \in Procs |-> FALSE]
    /\ hitLog = {}
    /\ delFailedEver = FALSE

Init == InitWith({"main", "part_000", "part_001"},
                 [writes |-> MaxWrites, reads |-> MaxReads])

(***************************************************************************)
(* The router: a request arrives and is handed to its handler.             *)
(***************************************************************************)
Requests ==
    IF variant = "part_001"
    THEN {[method |-> "GET", path |-> "", body |-> NoBody]}
         \cup {[method |-> "POST", path |-> "", body |-> b] : b \in BodiesP1}
         \cup {[method |-> "PUT", path |-> i, body |-> PutBodyP1] : i \in PathsP1}
         \cup {[method |-> "PUT", path |-> "a", body |-> BadBody]}
         \cup {[method |-> "DELETE", path |-> i, body |-> NoBody] : i \in PathsP1}
    ELSE {[method |-> "GET", path |-> "", body |-> NoBody]}
         \cup {[method |-> "POST", path |-> "", body |-> b] : b \in Bodies}
         \cup {[method |-> "PUT", path |-> i, body |-> PutBody] : i \in Paths}
         \cup {[method |-> "PUT", path |-> "1", body |-> BadBody]}
         \cup {[method |-> "DELETE", path |-> i, body |-> NoBody] : i \in Paths}

Handler(r) ==
    CASE r.method = "GET"    -> "getTasks"
      [] r.method = "POST"   -> IF variant = "part_001" THEN "createTask" ELSE "addTask"
      [] r.method = "PUT"    -> "updateTask"
      [] r.method = "DELETE" -> "deleteTask"

Dispatch(p) ==
    /\ pc[p] = "idle"
    /\ \E r \in Requests :
        /\ IF r.method = "GET"
           THEN /\ budget.reads # 0
                /\ budget' = IF budget.reads = Unlimited THEN budget
                              ELSE [budget EXCEPT !.reads = @ - 1]
           ELSE /\ budget.writes > 0
                /\ budget' = [budget EXCEPT !.writes = @ - 1]
        /\ req' = [req EXCEPT ![p] = r]
        /\ Goto(p, Handler(r))
    /\ UNCHANGED <<variant, storeVars, mutex, cache, localVars, resp, histVars>>

\* the handler has returned and the response is with the client
Return(p) ==
    /\ pc[p] = "done"
    /\ Goto(p, "idle")
    /\ req' = [req EXCEPT ![p] = NoReq]
    /\ task' = [task EXCEPT ![p] = IF variant = "part_001" THEN TaskP1 ELSE Task]
    /\ exists' = [exists EXCEPT ![p] = FALSE]
    /\ jsonData' = [jsonData EXCEPT ![p] = <<>>]
    /\ val' = [val EXCEPT ![p] = <<>>]
    /\ err' = [err EXCEPT ![p] = "nil"]
    /\ resp' = [resp EXCEPT ![p] = NoResp]
    /\ calls' = [calls EXCEPT ![p] = <<>>]
    /\ setAfterDel' = [setAfterDel EXCEPT ![p] = FALSE]
    /\ UNCHANGED <<variant, storeVars, mutex, cache, budget, createLog, returned,
                   hitLog, delFailedEver>>

(***************************************************************************)
(* Redis.                                                                  *)
(***************************************************************************)
\* Expire, had the entry been written with no expiration
ExpireNever ==
    /\ FALSE
    /\ UNCHANGED vars

\* the entry written with time.Minute*10 reaches its expiry
Expire ==
    /\ cache # <<>>
    /\ cache' = <<>>
    /\ hitLog' = {}
    /\ UNCHANGED <<variant, storeVars, mutex, budget, pc, req, localVars, resp,
                   createLog, returned, calls, setAfterDel, delFailedEver>>

\* rdb.Get(ctx, "tasks").Result(): the three results and what each leaves
\* in `val`, `err` and the history
RedisGet(p, res) ==
    /\ res \in {"hit", "miss", "error"}
    /\ res = "hit" => cache # <<>>
    /\ res = "miss" => cache = <<>>
    /\ val' = [val EXCEPT ![p] = IF res = "hit" THEN cache ELSE <<>>]
    /\ err' = [err EXCEPT ![p] = CASE res = "hit" -> "nil"
                                   [] res = "miss" -> "redis.Nil"
                                   [] res = "error" -> "error"]
    /\ hitLog' = IF res = "hit" THEN hitLog \cup {cache[1]} ELSE hitLog
    /\ Call(p, "Get", res)

\* the request has issued its rdb.Del
DelIssued(q) == \E i \in 1..Len(calls[q]) : calls[q][i].op = "Del"

\* rdb.Set(ctx, "tasks", jsonData, time.Minute*10)
RedisSet(p, ok) ==
    /\ cache' = IF ok THEN jsonData[p] ELSE cache
    /\ setAfterDel' = IF ok THEN [q \in Procs |-> DelIssued(q)] ELSE setAfterDel
    /\ Call(p, "Set", IF ok THEN "ok" ELSE "error")

\* rdb.Del(ctx, "tasks")
RedisDel(p, ok) ==
    /\ cache' = IF ok THEN <<>> ELSE cache
    /\ setAfterDel' = [setAfterDel EXCEPT ![p] = FALSE]
    /\ hitLog' = {}
    /\ delFailedEver' = (delFailedEver \/ ~ok)
    /\ Call(p, "Del", IF ok THEN "ok" ELSE "error")

(***************************************************************************)
(* Steps shared by the handlers.                                           *)
(***************************************************************************)
At(v, p, m, label) == variant = v /\ req[p].method = m /\ pc[p] = label

\* the id parsed from the path
PathID(p) == Atoi(req[p].path).n

\* the body decoded into `updatedTask`
UpdatedTask(p) == Decode(req[p].body).task

\* DelIgnoringError, had the handler gone on without calling rdb.Del
DelForgotten(p, next) ==
    /\ Goto(p, next)
    /\ UNCHANGED <<variant, storeVars, mutex, cache, budget, req, localVars, resp,
                   histVars>>

\* a Redis Del whose error the handler drops
DelIgnoringError(p, next) ==
    /\ \E ok \in BOOLEAN : RedisDel(p, ok)
    /\ Goto(p, next)
    /\ UNCHANGED <<variant, storeVars, mutex, budget, req, localVars, resp,
                   createLog, returned>>

\* http.Error(w, msg, status); return, before anything shared is touched
Reject(p, status, msg) ==
    /\ Respond(p, ErrorResp(status, msg))
    /\ Goto(p, "done")
    /\ UNCHANGED <<variant, storeVars, mutex, cache, budget, req, localVars, histVars>>

\* the response is written and the handler returns
Write(p, r) ==
    /\ Respond(p, r)
    /\ Goto(p, "done")
    /\ UNCHANGED <<variant, storeVars, cache, budget, req, localVars, createLog,
                   calls, setAfterDel, hitLog, delFailedEver>>

(***************************************************************************)
(* src/main.go                                                             *)
(***************************************************************************)
\* Main_getTasks_Get, had it tested `err != nil` where it tests
\* `err == redis.Nil`: a failed Get falls back to the store like a miss
Main_getTasks_GetFallback(p) ==
    /\ At("main", p, "GET", "getTasks")
    /\ mutex = Free
    /\ mutex' = p
    /\ \E res \in {"hit", "miss", "error"} :
        /\ RedisGet(p, res)
        /\ IF res \in {"miss", "error"}
           THEN /\ \E taskList \in TaskLists :
                      jsonData' = [jsonData EXCEPT ![p] = <<Marshal(taskList)>>]
                /\ Goto(p, "set")
           ELSE /\ UNCHANGED jsonData
                /\ Goto(p, "write")
    /\ UNCHANGED <<variant, storeVars, cache, budget, req, task, exists,
                   resp, createLog, returned, setAfterDel, delFailedEver>>

\* getTasks: mutex.Lock() (the Unlock deferred to the return), rdb.Get, and on
\* redis.Nil the copy of the map and json.Marshal
Main_getTasks_Get(p) ==
    /\ At("main", p, "GET", "getTasks")
    /\ mutex = Free
    /\ mutex' = p
    /\ \E res \in {"hit", "miss", "error"} :
        /\ RedisGet(p, res)
        /\ IF res = "miss"
           THEN /\ \E taskList \in TaskLists :
                      jsonData' = [jsonData EXCEPT ![p] = <<Marshal(taskList)>>]
                /\ Goto(p, "set")
           ELSE /\ UNCHANGED jsonData
                /\ Goto(p, "write")
    /\ UNCHANGED <<variant, storeVars, cache, budget, req, task, exists,
                   resp, createLog, returned, setAfterDel, delFailedEver>>

\* getTasks: rdb.Set, its result dropped
Main_getTasks_Set(p) ==
    /\ At("main", p, "GET", "set")
    /\ \E ok \in BOOLEAN : RedisSet(p, ok)
    /\ Goto(p, "write")
    /\ UNCHANGED <<variant, storeVars, mutex, budget, req, localVars, resp,
                   createLog, returned, hitLog, delFailedEver>>

\* getTasks: the response of the branch taken, then the deferred Unlock
Main_getTasks_Write(p) ==
    /\ At("main", p, "GET", "write")
    /\ Write(p, CASE err[p] = "redis.Nil" -> JsonResp(200, jsonData[p][1])
                  [] err[p] = "error"     -> ErrorResp(500, "redis error")
                  [] OTHER                -> JsonResp(200, val[p][1]))
    /\ mutex' = Free
    /\ UNCHANGED returned

\* AddTaskStore, had it left out `task.ID = nextID`: the record keeps the id
\* of the payload
AddTaskStore_PayloadID(p, t, next) ==
    /\ mutex = Free
    /\ task' = [task EXCEPT ![p] = t]
    /\ tasks' = Put(t.ID, t)
    /\ createLog' = Append(createLog, t.ID)
    /\ nextID' = nextID + 1
    /\ hitLog' = {}
    /\ Goto(p, next)
    /\ UNCHANGED <<variant, mutex, cache, budget, req, exists, jsonData, val, err,
                   resp, returned, calls, setAfterDel, delFailedEver>>

\* mutex.Lock(); task.ID = nextID; nextID++; tasks[task.ID] = task; mutex.Unlock()
AddTaskStore(p, t, next) ==
    /\ mutex = Free
    /\ task' = [task EXCEPT ![p] = [t EXCEPT !.ID = nextID]]
    /\ tasks' = Put(nextID, [t EXCEPT !.ID = nextID])
    /\ createLog' = Append(createLog, nextID)
    /\ nextID' = nextID + 1
    /\ hitLog' = {}
    /\ Goto(p, next)
    /\ UNCHANGED <<variant, mutex, cache, budget, req, exists, jsonData, val, err,
                   resp, returned, calls, setAfterDel, delFailedEver>>

\* Main_addTask_Store, had it dropped the error of Decode: the zero Task is
\* stored
Main_addTask_StoreUnchecked(p) ==
    /\ At("main", p, "POST", "addTask")
    /\ AddTaskStore(p, Decode(req[p].body).task, "del")

\* addTask: decode the body (400 when it does not decode), then the store
Main_addTask_Store(p) ==
    /\ At("main", p, "POST", "addTask")
    /\ IF Decode(req[p].body).err
       THEN Reject(p, 400, "Invalid request payload")
       ELSE AddTaskStore(p, Decode(req[p].body).task, "del")

\* addTask: rdb.Del after the Unlock, its result dropped
Main_addTask_Del(p) ==
    /\ At("main", p, "POST", "del")
    /\ DelIgnoringError(p, "write")

\* w.WriteHeader(http.StatusCreated); json.NewEncoder(w).Encode(task)
AddTaskWrite(p) ==
    /\ Write(p, JsonResp(201, MarshalTask(task[p])))
    /\ returned' = Append(returned, MarshalTask(task[p]).id)
    /\ UNCHANGED mutex

Main_addTask_Write(p) ==
    /\ At("main", p, "POST", "write")
    /\ AddTaskWrite(p)

\* UpdateTaskStore, had it left out `task.Completed = updatedTask.Completed`
UpdateTaskStore_NameOnly(p, found, missing) ==
    /\ mutex = Free
    /\ IF PathID(p) \in DOMAIN tasks
       THEN LET t == [tasks[PathID(p)] EXCEPT !.Name = UpdatedTask(p).Name]
            IN  /\ task' = [task EXCEPT ![p] = t]
                /\ tasks' = Put(PathID(p), t)
                /\ exists' = [exists EXCEPT ![p] = TRUE]
                /\ hitLog' = {}
                /\ Goto(p, found)
       ELSE /\ exists' = [exists EXCEPT ![p] = FALSE]
            /\ Goto(p, missing)
            /\ UNCHANGED <<task, tasks, hitLog>>
    /\ UNCHANGED <<variant, nextID, cache, budget, req, jsonData, val, err, resp,
                   createLog, returned, calls, setAfterDel, delFailedEver>>

\* task, exists := tasks[id]; if exists { task.Name = updatedTask.Name;
\* task.Completed = updatedTask.Completed; tasks[id] = task }
UpdateTaskStore(p, found, missing) ==
    /\ mutex = Free
    /\ IF PathID(p) \in DOMAIN tasks
       THEN LET t == [tasks[PathID(p)] EXCEPT !.Name = UpdatedTask(p).Name,
                                              !.Completed = UpdatedTask(p).Completed]
            IN  /\ task' = [task EXCEPT ![p] = t]
                /\ tasks' = Put(PathID(p), t)
                /\ exists' = [exists EXCEPT ![p] = TRUE]
                /\ hitLog' = {}
                /\ Goto(p, found)
       ELSE /\ exists' = [exists EXCEPT ![p] = FALSE]
            /\ Goto(p, missing)
            /\ UNCHANGED <<task, tasks, hitLog>>
    /\ UNCHANGED <<variant, nextID, cache, budget, req, jsonData, val, err, resp,
                   createLog, returned, calls, setAfterDel, delFailedEver>>

\* updateTask: strconv.Atoi on the path and the decoding of the body (400 on
\* either), mutex.Lock() with the Unlock deferred, then the store
Main_updateTask_Store(p) ==
    /\ At("main", p, "PUT", "updateTask")
    /\ IF Atoi(req[p].path).err THEN Reject(p, 400, "Invalid task ID")
       ELSE IF Decode(req[p].body).err THEN Reject(p, 400, "Invalid request payload")
       ELSE UpdateTaskStore(p, "del", "write") /\ mutex' = p

\* updateTask: rdb.Del under the mutex, its result dropped
Main_updateTask_Del(p) ==
    /\ At("main", p, "PUT", "del")
    /\ DelIgnoringError(p, "write")

\* the updated task, or 404
UpdateTaskWrite(p) ==
    /\ Write(p, IF exists[p] THEN JsonResp(200, MarshalTask(task[p]))
                ELSE ErrorResp(404, "Task not found"))
    /\ UNCHANGED returned

\* Main_updateTask_Write, had updateTask locked without `defer mutex.Unlock()`
Main_updateTask_WriteLocked(p) ==
    /\ At("main", p, "PUT", "write")
    /\ UpdateTaskWrite(p)
    /\ UNCHANGED mutex

\* updateTask: the response, then the deferred Unlock
Main_updateTask_Write(p) ==
    /\ At("main", p, "PUT", "write")
    /\ UpdateTaskWrite(p)
    /\ mutex' = Free

\* DeleteTaskStore, had it given the identifier back with `nextID--`
DeleteTaskStore_ReuseID(p, found, missing) ==
    /\ mutex = Free
    /\ IF PathID(p) \in DOMAIN tasks
       THEN /\ tasks' = Remove(PathID(p))
            /\ nextID' = nextID - 1
            /\ exists' = [exists EXCEPT ![p] = TRUE]
            /\ hitLog' = {}
            /\ Goto(p, found)
       ELSE /\ exists' = [exists EXCEPT ![p] = FALSE]
            /\ Goto(p, missing)
            /\ UNCHANGED <<tasks, nextID, hitLog>>
    /\ UNCHANGED <<variant, cache, budget, req, task, jsonData, val, err,
                   resp, createLog, returned, calls, setAfterDel, delFailedEver>>

\* _, exists := tasks[id]; if exists { delete(tasks, id) }
DeleteTaskStore(p, found, missing) ==
    /\ mutex = Free
    /\ IF PathID(p) \in DOMAIN tasks
       THEN /\ tasks' = Remove(PathID(p))
            /\ exists' = [exists EXCEPT ![p] = TRUE]
            /\ hitLog' = {}
            /\ Goto(p, found)
       ELSE /\ exists' = [exists EXCEPT ![p] = FALSE]
            /\ Goto(p, missing)
            /\ UNCHANGED <<tasks, hitLog>>
    /\ UNCHANGED <<variant, nextID, cache, budget, req, task, jsonData, val, err,
                   resp, createLog, returned, calls, setAfterDel, delFailedEver>>

\* deleteTask: strconv.Atoi on the path (400 when it does not parse),
\* mutex.Lock() with the Unlock deferred, then the store
Main_deleteTask_Store(p) ==
    /\ At("main", p, "DELETE", "deleteTask")
    /\ IF Atoi(req[p].path).err THEN Reject(p, 400, "Invalid task ID")
       ELSE DeleteTaskStore(p, "del", "write") /\ mutex' = p

\* deleteTask: rdb.Del under the mutex, its result dropped
Main_deleteTask_Del(p) ==
    /\ At("main", p, "DELETE", "del")
    /\ DelIgnoringError(p, "write")

\* 204, or 404
DeleteTaskWrite(p) ==
    /\ Write(p, IF exists[p] THEN EmptyResp(204)
                ELSE ErrorResp(404, "Task not found"))
    /\ UNCHANGED returned

\* deleteTask: the response, then the deferred Unlock
Main_deleteTask_Write(p) ==
    /\ At("main", p, "DELETE", "write")
    /\ DeleteTaskWrite(p)
    /\ mutex' = Free

MainNext(p) ==
    \/ Main_getTasks_Get(p) \/ Main_getTasks_Set(p) \/ Main_getTasks_Write(p)
    \/ Main_addTask_Store(p) \/ Main_addTask_Del(p) \/ Main_addTask_Write(p)
    \/ Main_updateTask_Store(p) \/ Main_updateTask_Del(p)
    \/ Main_updateTask_Write(p)
    \/ Main_deleteTask_Store(p) \/ Main_deleteTask_Del(p)
    \/ Main_deleteTask_Write(p)

(***************************************************************************)
(* src/unnamed/part_000: the same store without the cache                  *)
(***************************************************************************)
\* mutex.Lock(); the copy of the map; mutex.Unlock().  The copy is encoded
\* when the response is written, which changes nothing of it.
P0_getTasks_List(p) ==
    /\ At("part_000", p, "GET", "getTasks")
    /\ mutex = Free
    /\ \E taskList \in TaskLists :
           jsonData' = [jsonData EXCEPT ![p] = <<Marshal(taskList)>>]
    /\ Goto(p, "write")
    /\ UNCHANGED <<variant, storeVars, mutex, cache, budget, req, task, exists,
                   val, err, resp, histVars>>

\* json.NewEncoder(w).Encode(taskList)
P0_getTasks_Write(p) ==
    /\ At("part_000", p, "GET", "write")
    /\ Write(p, JsonResp(200, jsonData[p][1]))
    /\ UNCHANGED <<mutex, returned>>

P0_addTask_Store(p) ==
    /\ At("part_000", p, "POST", "addTask")
    /\ IF Decode(req[p].body).err
       THEN Reject(p, 400, "Invalid request payload")
       ELSE AddTaskStore(p, Decode(req[p].body).task, "write")

P0_addTask_Write(p) ==
    /\ At("part_000", p, "POST", "write")
    /\ AddTaskWrite(p)

\* updateTask: the store between mutex.Lock() and mutex.Unlock()
P0_updateTask_Store(p) ==
    /\ At("part_000", p, "PUT", "updateTask")
    /\ IF Atoi(req[p].path).err THEN Reject(p, 400, "Invalid task ID")
       ELSE IF Decode(req[p].body).err THEN Reject(p, 400, "Invalid request payload")
       ELSE UpdateTaskStore(p, "write", "write") /\ UNCHANGED mutex

P0_updateTask_Write(p) ==
    /\ At("part_000", p, "PUT", "write")
    /\ UpdateTaskWrite(p)
    /\ UNCHANGED mutex

\* deleteTask: the store between mutex.Lock() and mutex.Unlock()
P0_deleteTask_Store(p) ==
    /\ At("part_000", p, "DELETE", "deleteTask")
    /\ IF Atoi(req[p].path).err THEN Reject(p, 400, "Invalid task ID")
       ELSE DeleteTaskStore(p, "write", "write") /\ UNCHANGED mutex

P0_deleteTask_Write(p) ==
    /\ At("part_000", p, "DELETE", "write")
    /\ DeleteTaskWrite(p)
    /\ UNCHANGED mutex

P0Next(p) ==
    \/ P0_getTasks_List(p) \/ P0_getTasks_Write(p)
    \/ P0_addTask_Store(p) \/ P0_addTask_Write(p)
    \/ P0_updateTask_Store(p) \/ P0_updateTask_Write(p)
    \/ P0_deleteTask_Store(p) \/ P0_deleteTask_Write(p)

(***************************************************************************)
(* src/unnamed/part_001: chi router, string ids supplied by the client     *)
(***************************************************************************)
\* getTasks: rdb.Get, no mutex held
P1_getTasks_Get(p) ==
    /\ At("part_001", p, "GET", "getTasks")
    /\ \E res \in {"hit", "miss", "error"} :
        /\ RedisGet(p, res)
        /\ Goto(p, IF res = "miss" THEN "list" ELSE "write")
    /\ UNCHANGED <<variant, storeVars, mutex, cache, budget, req, task, exists,
                   jsonData, resp, createLog, returned, setAfterDel, delFailedEver>>

\* tasksMutex.Lock(); the copy of the map; tasksMutex.Unlock(); json.Marshal
P1_getTasks_List(p) ==
    /\ At("part_001", p, "GET", "list")
    /\ mutex = Free
    /\ \E taskList \in TaskLists :
           jsonData' = [jsonData EXCEPT ![p] = <<Marshal(taskList)>>]
    /\ Goto(p, "set")
    /\ UNCHANGED <<variant, storeVars, mutex, cache, budget, req, task, exists,
                   val, err, resp, histVars>>

\* err = rdb.Set(...).Err(); on an error 500 and return
P1_getTasks_Set(p) ==
    /\ At("part_001", p, "GET", "set")
    /\ \E ok \in BOOLEAN :
        /\ RedisSet(p, ok)
        /\ err' = [err EXCEPT ![p] = IF ok THEN "nil" ELSE "error"]
        /\ IF ok
           THEN /\ Goto(p, "write")
                /\ UNCHANGED resp
           ELSE /\ Respond(p, ErrorResp(500, "redis set error"))
                /\ Goto(p, "done")
    /\ UNCHANGED <<variant, storeVars, mutex, budget, req, task, exists, jsonData,
                   val, createLog, returned, hitLog, delFailedEver>>

\* w.Write(jsonData) after a miss, 500 after a Get error, w.Write([]byte(val))
\* after a hit
P1_getTasks_Write(p) ==
    /\ At("part_001", p, "GET", "write")
    /\ Write(p, CASE jsonData[p] # <<>> -> JsonResp(200, jsonData[p][1])
                  [] err[p] = "error"   -> ErrorResp(500, "redis error")
                  [] OTHER              -> JsonResp(200, val[p][1]))
    /\ UNCHANGED <<mutex, returned>>

\* DelOrFail, had it taken the record back out of the map when the Del fails
DelOrRollback(p) ==
    /\ \E ok \in BOOLEAN :
        /\ RedisDel(p, ok)
        /\ err' = [err EXCEPT ![p] = IF ok THEN "nil" ELSE "error"]
        /\ tasks' = IF ok THEN tasks ELSE Remove(task[p].ID)
        /\ IF ok
           THEN /\ Goto(p, "write")
                /\ UNCHANGED resp
           ELSE /\ Respond(p, ErrorResp(500, "redis del error"))
                /\ Goto(p, "done")
    /\ UNCHANGED <<variant, nextID, mutex, budget, req, task, exists, jsonData,
                   val, createLog, returned>>

\* err := rdb.Del(...).Err(); on an error 500 and return
DelOrFail(p) ==
    /\ \E ok \in BOOLEAN :
        /\ RedisDel(p, ok)
        /\ err' = [err EXCEPT ![p] = IF ok THEN "nil" ELSE "error"]
        /\ IF ok
           THEN /\ Goto(p, "write")
                /\ UNCHANGED resp
           ELSE /\ Respond(p, ErrorResp(500, "redis del error"))
                /\ Goto(p, "done")
    /\ UNCHANGED <<variant, storeVars, mutex, budget, req, task, exists, jsonData,
                   val, createLog, returned>>

\* PutStore, had the handler kept the cache up to date itself: a live entry
\* gets the new record appended
PutStore_WriteThrough(p, key, t) ==
    /\ mutex = Free
    /\ task' = [task EXCEPT ![p] = t]
    /\ exists' = [exists EXCEPT ![p] = key \in DOMAIN tasks]
    /\ tasks' = Put(key, t)
    /\ cache' = IF cache = <<>> THEN cache
                ELSE <<Append(cache[1], MarshalTaskP1(t))>>
    /\ hitLog' = {}
    /\ Goto(p, "del")
    /\ UNCHANGED <<variant, nextID, mutex, budget, req, jsonData, val, err,
                   resp, createLog, returned, calls, setAfterDel, delFailedEver>>

\* tasksMutex.Lock(); tasks[key] = t; tasksMutex.Unlock()
PutStore(p, key, t) ==
    /\ mutex = Free
    /\ task' = [task EXCEPT ![p] = t]
    /\ exists' = [exists EXCEPT ![p] = key \in DOMAIN tasks]
    /\ tasks' = Put(key, t)
    /\ hitLog' = {}
    /\ Goto(p, "del")
    /\ UNCHANGED <<variant, nextID, mutex, cache, budget, req, jsonData, val, err,
                   resp, createLog, returned, calls, setAfterDel, delFailedEver>>

\* P1_createTask_Store, had createTask kept the record of an identifier that
\* is already a key
P1_createTask_StoreIfAbsent(p) ==
    /\ At("part_001", p, "POST", "createTask")
    /\ IF DecodeP1(req[p].body).err
       THEN Reject(p, 400, "decode error")
       ELSE IF DecodeP1(req[p].body).task.ID \in DOMAIN tasks
       THEN PutStore(p, DecodeP1(req[p].body).task.ID,
                     tasks[DecodeP1(req[p].body).task.ID])
       ELSE PutStore(p, DecodeP1(req[p].body).task.ID, DecodeP1(req[p].body).task)

\* createTask: decode the body (400 when it does not decode);
\* tasks[task.ID] = task
P1_createTask_Store(p) ==
    /\ At("part_001", p, "POST", "createTask")
    /\ IF DecodeP1(req[p].body).err
       THEN Reject(p, 400, "decode error")
       ELSE PutStore(p, DecodeP1(req[p].body).task.ID, DecodeP1(req[p].body).task)

P1_createTask_Del(p) ==
    /\ At("part_001", p, "POST", "del")
    /\ DelOrFail(p)

\* w.WriteHeader(http.StatusCreated)
P1_createTask_Write(p) ==
    /\ At("part_001", p, "POST", "write")
    /\ Write(p, EmptyResp(201))
    /\ UNCHANGED <<mutex, returned>>

\* updateTask: id := chi.URLParam(r, "id"); decode the body (400 when it does
\* not decode); task.ID = id; tasks[id] = task, whether or not id is a key
P1_updateTask_Store(p) ==
    /\ At("part_001", p, "PUT", "updateTask")
    /\ IF DecodeP1(req[p].body).err
       THEN Reject(p, 400, "decode error")
       ELSE PutStore(p, req[p].path,
                     [DecodeP1(req[p].body).task EXCEPT !.ID = req[p].path])

P1_updateTask_Del(p) ==
    /\ At("part_001", p, "PUT", "del")
    /\ DelOrFail(p)

\* w.WriteHeader(http.StatusOK)
P1_updateTask_Write(p) ==
    /\ At("part_001", p, "PUT", "write")
    /\ Write(p, EmptyResp(200))
    /\ UNCHANGED <<mutex, returned>>

\* deleteTask: id := chi.URLParam(r, "id"); tasksMutex.Lock();
\* delete(tasks, id), a no-op when id is no key; tasksMutex.Unlock()
P1_deleteTask_Store(p) ==
    /\ At("part_001", p, "DELETE", "deleteTask")
    /\ mutex = Free
    /\ exists' = [exists EXCEPT ![p] = req[p].path \in DOMAIN tasks]
    /\ tasks' = Remove(req[p].path)
    /\ hitLog' = IF req[p].path \in DOMAIN tasks THEN {} ELSE hitLog
    /\ Goto(p, "del")
    /\ UNCHANGED <<variant, nextID, mutex, cache, budget, req, task, jsonData, val,
                   err, resp, createLog, returned, calls, setAfterDel, delFailedEver>>

P1_deleteTask_Del(p) ==
    /\ At("part_001", p, "DELETE", "del")
    /\ DelOrFail(p)

\* w.WriteHeader(http.StatusNoContent)
P1_deleteTask_Write(p) ==
    /\ At("part_001", p, "DELETE", "write")
    /\ Write(p, EmptyResp(204))
    /\ UNCHANGED <<mutex, returned>>

P1Next(p) ==
    \/ P1_getTasks_Get(p) \/ P1_getTasks_List(p)
    \/ P1_getTasks_Set(p) \/ P1_getTasks_Write(p)
    \/ P1_createTask_Store(p) \/ P1_createTask_Del(p) \/ P1_createTask_Write(p)
    \/ P1_updateTask_Store(p) \/ P1_updateTask_Del(p) \/ P1_updateTask_Write(p)
    \/ P1_deleteTask_Store(p) \/ P1_deleteTask_Del(p) \/ P1_deleteTask_Write(p)

Next ==
    \/ Expire
    \/ \E p \in Procs :
           Dispatch(p) \/ Return(p) \/ MainNext(p) \/ P0Next(p) \/ P1Next(p)

Spec == Init /\ [][Next]_vars

(***************************************************************************)
(* Vocabulary of the properties.                                           *)
(***************************************************************************)
Cached == variant \in {"main", "part_001"}

ServerAssigned == variant \in {"main", "part_000"}

\* every byte string json.Marshal can produce for the store as it is now
Serializations == {Marshal(taskList) : taskList \in TaskLists}

Success == {200, 201, 204}

\* the request's path and body pass the handler's parsing
WellFormed(p) ==
    IF variant = "part_001"
    THEN req[p].method \in {"POST", "PUT"} => ~DecodeP1(req[p].body).err
    ELSE /\ req[p].method \in {"PUT", "DELETE"} => ~Atoi(req[p].path).err
         /\ req[p].method \in {"POST", "PUT"} => ~Decode(req[p].body).err

\* the identifier an Update or Delete request names
ReqID(p) == IF variant = "part_001" THEN req[p].path ELSE PathID(p)

\* among the Redis calls cs of a request: one of op with result res
HasCallIn(cs, op, res) == \E i \in 1..Len(cs) : cs[i] = [op |-> op, res |-> res]

HasCall(p, op, res) == HasCallIn(calls[p], op, res)

\* among the Redis calls cs of a request: how many are op
NumCallsIn(cs, op) == Cardinality({i \in 1..Len(cs) : cs[i].op = op})

\* p's store mutation is done and its cache Del is still to come
WriteInFlight(p) ==
    /\ IsWrite(p)
    /\ pc[p] = "del"
    /\ req[p].method = "DELETE" => exists[p]

\* p takes a step of its handler
Steps(p) == pc[p] \notin {"idle", "done"} /\ pc'[p] # pc[p]

(***************************************************************************)
(* C1. Read-after-write, immediate case: in the cached builds, whenever no *)
(* write is between its store mutation and its cache Del and no write's    *)
(* Del has failed, the entry under "tasks" is absent or is a serialization *)
(* of the store as it is now.                                              *)
(***************************************************************************)
C1_ReadAfterWriteImmediate ==
    (Cached /\ ~delFailedEver /\ \A p \in Procs : ~WriteInFlight(p))
        => (cache = <<>> \/ cache[1] \in Serializations)

(***************************************************************************)
(* C2. Identifier uniqueness, server-assigned builds: the identifiers      *)
(* assigned by Create start at 1 and increase strictly in the order of the *)
(* store mutations, no two 201 responses carry the same identifier, every  *)
(* identifier returned is one the store assigned, and the id of the        *)
(* payload plays no part.                                                  *)
(***************************************************************************)
C2_IdentifierUniqueness ==
    ServerAssigned =>
        /\ Len(createLog) > 0 => createLog[1] = 1
        /\ \A i, j \in 1..Len(createLog) : i < j => createLog[i] < createLog[j]
        /\ \A i, j \in 1..Len(returned) : i # j => returned[i] # returned[j]
        /\ \A i \in 1..Len(returned) :
               \E j \in 1..Len(createLog) : createLog[j] = returned[i]
        /\ \A p \in Procs :
               (req[p].method = "POST" /\ pc[p] = "done" /\ resp[p].status = 201)
                   => /\ resp[p].data[1].id = task[p].ID
                      /\ \E j \in 1..Len(createLog) : createLog[j] = task[p].ID
                      /\ resp[p].data[1].name = Decode(req[p].body).task.Name

\* two Creates have returned, and the one given id 1 carried "id": 2
C2_Witness ==
    /\ variant = "main"
    /\ Len(returned) = 2
    /\ 1 \in DOMAIN tasks
    /\ tasks[1].Name = "B"

C4_NotFoundSymmetry ==
    [][\A p \in Procs :
          ( /\ req[p].method \in {"PUT", "DELETE"}
            /\ WellFormed(p)
            /\ Steps(p)
            /\ IF pc[p] \in {"updateTask", "deleteTask"}
               THEN ReqID(p) \notin DOMAIN tasks
               ELSE ~exists[p] )
          => /\ tasks' = tasks
             /\ nextID' = nextID
             /\ cache' = cache
             /\ calls'[p] = calls[p]
             /\ pc'[p] = "done" => resp'[p].status = 404]_vars

(***************************************************************************)
(* C6. A failed invalidation never undoes the write: once a write has done *)
(* its store operation, none of its later steps changes the map or the     *)
(* counter, it issues at most one Del, and a Del that fails leaves the     *)
(* cache entry as it was.                                                  *)
(***************************************************************************)
C6_NoRollback ==
    [][\A p \in Procs :
          (IsWrite(p) /\ Steps(p) /\ pc[p] \in {"del", "write"})
          => /\ tasks' = tasks
             /\ nextID' = nextID
             /\ NumCallsIn(calls'[p], "Del") <= 1
             /\ (pc[p] = "del" /\ HasCallIn(calls'[p], "Del", "error"))
                    => cache' = cache]_vars

\* a Create has returned after its Del failed: its record is in the store
\* and the entry it failed to delete is still live
C6_Witness ==
    \E p \in Procs :
        /\ req[p].method = "POST" /\ pc[p] = "done"
        /\ HasCall(p, "Del", "error")
        /\ cache # <<>>
        /\ task[p].ID \in DOMAIN tasks
        /\ tasks[task[p].ID] = task[p]

(***************************************************************************)
(* C7. A write whose store mutation has committed is reported to the       *)
(* client as a success, also when its cache Del failed: Create of a        *)
(* well-formed body and Update/Delete of an existing identifier never      *)
(* fail.                                                                   *)
(***************************************************************************)
C7_WriteSucceedsDespiteDelFailure ==
    \A p \in Procs :
        ( /\ IsWrite(p) /\ pc[p] = "done" /\ WellFormed(p)
          /\ req[p].method = "POST" \/ exists[p] )
        => resp[p].status \in Success

(***************************************************************************)
(* C8. Read-path Set failure: when GetAll misses and its Set fails, the    *)
(* failed Set leaves the cache as it was, is not retried, and the response *)
(* is 200 with the collection just read from the store.                    *)
(***************************************************************************)
C8_SetFailureStillServes ==
    [][\A p \in Procs :
          (req[p].method = "GET" /\ Steps(p) /\ HasCallIn(calls'[p], "Set", "error"))
          => /\ pc[p] = "set" => cache' = cache
             /\ NumCallsIn(calls'[p], "Set") = 1
             /\ pc'[p] = "done"
                    => /\ resp'[p].status = 200
                       /\ resp'[p].kind = "json"
                       /\ resp'[p].data = jsonData'[p]]_vars

(***************************************************************************)
(* C9. Read-path provider error: when the Get of GetAll fails with an      *)
(* error other than a miss, the request issues no other Redis call, takes  *)
(* no copy of the store, changes neither the store nor the cache, and ends *)
(* with 500 and an error text instead of a collection.                     *)
(***************************************************************************)
C9_GetErrorSurfaces ==
    [][\A p \in Procs :
          (req[p].method = "GET" /\ Steps(p) /\ HasCallIn(calls'[p], "Get", "error"))
          => /\ tasks' = tasks
             /\ nextID' = nextID
             /\ cache' = cache
             /\ Len(calls'[p]) = 1
             /\ jsonData'[p] = <<>>
             /\ val'[p] = <<>>
             /\ pc'[p] \in {"write", "done"}
             /\ pc'[p] = "done"
                    => resp'[p].status = 500 /\ resp'[p].kind = "text"]_vars

\* a GetAll has ended after its Get failed, with a store that holds tasks
\* it could have served
C9_Witness ==
    \E p \in Procs :
        /\ req[p].method = "GET" /\ pc[p] = "done"
        /\ HasCall(p, "Get", "error")
        /\ resp[p].status = 500
        /\ DOMAIN tasks # {}

(***************************************************************************)
(* C10. Cache population idempotence: the GetAll calls that hit the cache  *)
(* with no store mutation, Del or expiry between them all return the same  *)
(* bytes; a hit returns the cached value and issues no other Redis call.   *)
(***************************************************************************)
C10_CachePopulationIdempotence ==
    Cached =>
        /\ Cardinality(hitLog) <= 1
        /\ \A p \in Procs :
               (req[p].method = "GET" /\ pc[p] = "done" /\ HasCall(p, "Get", "hit"))
                   => /\ resp[p].status = 200
                      /\ resp[p].data = val[p]
                      /\ Len(calls[p]) = 1

(***************************************************************************)
(* part_001 alone, with few writes and many reads.                         *)
(***************************************************************************)
P1Writes == 1

P1Reads == 4

InitP1 == InitWith({"part_001"}, [writes |-> P1Writes, reads |-> P1Reads])

NextP1 ==
    \/ Expire
    \/ \E p \in Procs : Dispatch(p) \/ Return(p) \/ P1Next(p)

SpecP1 == InitP1 /\ [][NextP1]_vars

(***************************************************************************)
(* The cached builds under fair scheduling, with reads that never stop.    *)
(* The service starts from a state it is in after one Create has been      *)
(* served and its cache entry is gone.  Every request that can take a step *)
(* eventually does (each runs on its own goroutine), and a live entry      *)
(* reaches its expiry (each Set gives it ten minutes).                     *)
(***************************************************************************)
LiveWrites == 1

InitLive ==
    /\ variant \in {"main", "part_001"}
    /\ tasks = IF variant = "part_001"
               THEN [k \in {"a"} |-> [ID |-> "a", Title |-> "A", Completed |-> FALSE]]
               ELSE [k \in {1} |-> [ID |-> 1, Name |-> "A", Completed |-> FALSE]]
    /\ nextID = IF variant = "part_001" THEN 1 ELSE 2
    /\ mutex = Free
    /\ cache = <<>>
    /\ budget = [writes |-> LiveWrites, reads |-> Unlimited]
    /\ pc = [p \in Procs |-> "idle"]
    /\ req = [p \in Procs |-> NoReq]
    /\ task = [p \in Procs |-> IF variant = "part_001" THEN TaskP1 ELSE Task]
    /\ exists = [p \in Procs |-> FALSE]
    /\ jsonData = [p \in Procs |-> <<>>]
    /\ val = [p \in Procs |-> <<>>]
    /\ err = [p \in Procs |-> "nil"]
    /\ resp = [p \in Procs |-> NoResp]
    /\ createLog = IF variant = "part_001" THEN <<>> ELSE <<1>>
    /\ returned = IF variant = "part_001" THEN <<>> ELSE <<1>>
    /\ calls = [p \in Procs |-> <<>>]
    /\ setAfterDel = [p \in Procs |-> FALSE]
    /\ hitLog = {}
    /\ delFailedEver = FALSE

HandlerStep(p) == Return(p) \/ MainNext(p) \/ P1Next(p)

NextLive ==
    \/ Expire
    \/ \E p \in Procs : Dispatch(p) \/ Return(p) \/ MainNext(p) \/ P1Next(p)

SpecLive ==
    /\ InitLive
    /\ [][NextLive]_vars
    /\ WF_vars(Expire)
    /\ \A p \in Procs : WF_vars(HandlerStep(p))

\* every GetAll response that carries a collection carries the store's
ConsistentReads ==
    \A p \in Procs :
        (req[p].method = "GET" /\ pc[p] = "done" /\ resp[p].status = 200)
            => resp[p].data[1] \in Serializations

(***************************************************************************)
(* C5. Read-after-write, eventual case: under fair scheduling of the       *)
(* pending requests and of the entry's expiry, and with finitely many      *)
(* writes, from some moment on every GetAll that returns a collection      *)
(* returns the store's contents, whether or not a write's Del failed or a  *)
(* reader put an older snapshot back.                                      *)
(***************************************************************************)
C5_EventuallyConsistent == <>[]ConsistentReads

\* after a write whose Del failed, a GetAll has returned the store's contents
C5_Witness ==
    \E p \in Procs :
        /\ req[p].method = "GET" /\ pc[p] = "done" /\ resp[p].status = 200
        /\ resp[p].data[1] \in Serializations
        /\ delFailedEver
        /\ budget.writes = 0

(***************************************************************************)
(* C11. Update semantics and authoritative identifier: every record in the *)
(* map carries the key it is stored under as its identifier; the store     *)
(* step of an Update of an existing id replaces the name/title and         *)
(* completed of that record by the payload's and nothing else in the map;  *)
(* and the Update answers 200 with the updated record, whose id is the     *)
(* path id and not the payload's.                                          *)
(***************************************************************************)
C11_UpdateReplacesFields ==
    /\ [](\A k \in DOMAIN tasks : tasks[k].ID = k)
    /\ [][\A p \in Procs :
            (req[p].method = "PUT" /\ WellFormed(p) /\ Steps(p))
            => /\ (pc[p] = "updateTask" /\ ReqID(p) \in DOMAIN tasks)
                  => /\ DOMAIN tasks' = DOMAIN tasks
                     /\ \A k \in DOMAIN tasks \ {ReqID(p)} : tasks'[k] = tasks[k]
                     /\ tasks'[ReqID(p)] =
                            IF variant = "part_001"
                            THEN [tasks[ReqID(p)] EXCEPT
                                     !.Title = DecodeP1(req[p].body).task.Title,
                                     !.Completed = DecodeP1(req[p].body).task.Completed]
                            ELSE [tasks[ReqID(p)] EXCEPT
                                     !.Name = Decode(req[p].body).task.Name,
                                     !.Completed = Decode(req[p].body).task.Completed]
               /\ (pc[p] = "write" /\ exists[p])
                  => /\ resp'[p].status = 200
                     /\ resp'[p].kind = "json"
                     /\ resp'[p].data[1].id = ReqID(p)
                     /\ resp'[p].data[1].completed =
                            IF variant = "part_001"
                            THEN DecodeP1(req[p].body).task.Completed
                            ELSE Decode(req[p].body).task.Completed
                     /\ IF variant = "part_001"
                        THEN resp'[p].data[1].title = DecodeP1(req[p].body).task.Title
                        ELSE resp'[p].data[1].name = Decode(req[p].body).task.Name]_vars

(***************************************************************************)
(* C12. Malformed input is rejected before any store or cache access: a    *)
(* Create or Update whose body does not decode, or an Update or Delete     *)
(* whose path id does not parse, ends in its first step with 400, and that *)
(* step leaves the map, the counter, the mutex and the cache entry as they *)
(* were and issues no Redis call.                                          *)
(***************************************************************************)
C12_MalformedRejected ==
    [][\A p \in Procs :
          (IsWrite(p) /\ ~WellFormed(p) /\ Steps(p))
          => /\ tasks' = tasks
             /\ nextID' = nextID
             /\ mutex' = mutex
             /\ cache' = cache
             /\ calls'[p] = calls[p]
             /\ pc'[p] = "done"
             /\ resp'[p].status = 400
             /\ resp'[p].kind = "text"]_vars

\* a malformed write has been rejected while the store held a task and the
\* cache a live entry
C12_Witness ==
    \E p \in Procs :
        /\ IsWrite(p) /\ ~WellFormed(p) /\ pc[p] = "done"
        /\ resp[p].status = 400
        /\ DOMAIN tasks # {}
        /\ cache # <<>>

(***************************************************************************)
(* One client that sends the requests of the scenario one after the        *)
(* other, each after the response to the one before, to a server-assigned  *)
(* build that starts empty.                                                *)
(***************************************************************************)
Script ==
    << [method |-> "POST", path |-> "",
        body |-> [syntaxOK |-> TRUE, obj |-> [name |-> "A"]]],
       [method |-> "POST", path |-> "",
        body |-> [syntaxOK |-> TRUE, obj |-> [name |-> "B"]]],
       [method |-> "GET", path |-> "", body |-> NoBody],
       [method |-> "PUT", path |-> "1",
        body |-> [syntaxOK |-> TRUE, obj |-> [name |-> "A2", completed |-> TRUE]]],
       [method |-> "DELETE", path |-> "2", body |-> NoBody],
       [method |-> "GET", path |-> "", body |-> NoBody],
       [method |-> "DELETE", path |-> "2", body |-> NoBody] >>

InitScenario ==
    InitWith({"main", "part_000"}, [writes |-> 0, reads |-> 0, script |-> Script])

\* the next request of the script arrives once no request is in service
DispatchScript(p) ==
    /\ \A q \in Procs : pc[q] = "idle"
    /\ budget.script # <<>>
    /\ req' = [req EXCEPT ![p] = Head(budget.script)]
    /\ budget' = [budget EXCEPT !.script = Tail(@)]
    /\ Goto(p, Handler(Head(budget.script)))
    /\ UNCHANGED <<variant, storeVars, mutex, cache, localVars, resp, histVars>>

NextScenario ==
    \/ Expire
    \/ \E p \in Procs : DispatchScript(p) \/ Return(p) \/ MainNext(p) \/ P0Next(p)

SpecScenario == InitScenario /\ [][NextScenario]_vars

\* the position in the script of the request in service
ScriptStep == Len(Script) - Len(budget.script)

\* the response r is the one the scenario expects of request number i
Expected(i, r) ==
    CASE i = 1 -> /\ r.status = 201 /\ r.kind = "json"
                  /\ r.data[1] = [id |-> 1, name |-> "A", completed |-> FALSE]
      [] i = 2 -> /\ r.status = 201 /\ r.kind = "json"
                  /\ r.data[1] = [id |-> 2, name |-> "B", completed |-> FALSE]
      [] i = 3 -> /\ r.status = 200 /\ r.kind = "json"
                  /\ Len(r.data[1]) = 2
                  /\ {r.data[1][k] : k \in 1..2}
                       = { [id |-> 1, name |-> "A", completed |-> FALSE],
                           [id |-> 2, name |-> "B", completed |-> FALSE] }
      [] i = 4 -> /\ r.status = 200 /\ r.kind = "json"
                  /\ r.data[1] = [id |-> 1, name |-> "A2", completed |-> TRUE]
      [] i = 5 -> r.status = 204 /\ r.kind = "empty"
      [] i = 6 -> /\ r.status = 200 /\ r.kind = "json"
                  /\ r.data[1] = << [id |-> 1, name |-> "A2", completed |-> TRUE] >>
      [] i = 7 -> r.status = 404
      [] OTHER -> FALSE

(***************************************************************************)
(* C13. The concrete scenario: run one request after the other from an     *)
(* empty store, and as long as no Redis Del or Get has failed, Create A    *)
(* returns id 1 with completed false, Create B id 2, GetAll the records 1  *)
(* and 2 in some order, Update(1, A2, true) the record {1, A2, true},      *)
(* Delete(2) 204, the next GetAll the record 1 alone, and the second       *)
(* Delete(2) 404.                                                          *)
(***************************************************************************)
C13_Scenario ==
    \A p \in Procs :
        (pc[p] = "done" /\ ~delFailedEver /\ ~HasCall(p, "Get", "error"))
            => Expected(ScriptStep, resp[p])

\* the cached build has answered the last request of the script, with every
\* Del before it successful and the entry of the second GetAll still live
C13_Witness ==
    \E p \in Procs :
        /\ variant = "main"
        /\ budget.script = <<>>
        /\ pc[p] = "done" /\ resp[p].status = 404
        /\ ~delFailedEver
        /\ cache = << << [id |-> 1, name |-> "A2", completed |-> TRUE] >> >>

(***************************************************************************)
(* C14. Lock scope: a request that issues a Redis call (Get, Set or Del on *)
(* "tasks") does not hold the store mutex, neither when the call starts    *)
(* nor when it returns.                                                    *)
(***************************************************************************)
C14_NoLockAcrossCacheCall ==
    [][\A p \in Procs :
          (Cached /\ calls'[p] # calls[p] /\ calls'[p] # <<>>)
              => (mutex # p /\ mutex' # p)]_vars

\* q's GetAll reads the entry under "tasks" and finds it
GetHit(q) ==
    /\ Main_getTasks_Get(q) \/ P1_getTasks_Get(q)
    /\ HasCallIn(calls'[q], "Get", "hit")

(***************************************************************************)
(* C15. The accepted staleness window: whenever a Create, Update or Delete *)
(* is between its store mutation and its cache Del, the entry is live and  *)
(* differs from the store, and a concurrent GetAll is about to read the    *)
(* cache, that GetAll can take its step and hit the stale entry: no lock   *)
(* keeps it out of the window.                                             *)
(***************************************************************************)
C15_StalenessWindow ==
    \A p \in Procs : \A q \in Procs \ {p} :
        ( /\ Cached
          /\ WriteInFlight(p)
          /\ cache # <<>>
          /\ cache[1] \notin Serializations
          /\ req[q].method = "GET" /\ pc[q] = "getTasks" )
        => ENABLED GetHit(q)

(***************************************************************************)
(* The cached builds with reads that never stop, under strong fairness of  *)
(* each request's steps: a Redis call returns, a goroutine that can run    *)
(* does, and a goroutine waiting in mutex.Lock() is not overtaken for ever *)
(* (sync.Mutex hands the lock to a waiter that has waited too long).       *)
(***************************************************************************)
SpecFair ==
    /\ InitLive
    /\ [][NextLive]_vars
    /\ \A p \in Procs : SF_vars(HandlerStep(p))

(***************************************************************************)
(* C16. No operation blocks indefinitely: a request that has ended does    *)
(* not hold the mutex, and under fair scheduling no goroutine stays in a   *)
(* handler for ever: again and again it is out of service, its last        *)
(* request answered, on the success, error and NotFound paths alike.       *)
(***************************************************************************)
C16_NoOperationBlocks ==
    /\ [](\A p \in Procs : pc[p] \in {"idle", "done"} => mutex # p)
    /\ \A p \in Procs : []<>(pc[p] \in {"idle", "done"})

\* a request waits in mutex.Lock() while another, between its Redis calls,
\* holds the mutex
C16_Witness ==
    \E p \in Procs : \E q \in Procs \ {p} :
        /\ mutex = q
        /\ pc[q] \in {"set", "del"}
        /\ pc[p] \in {"getTasks", "addTask", "updateTask", "deleteTask"}

(***************************************************************************)
(* The server-assigned builds under writes alone: enough of them for a     *)
(* Create, a Delete and a Create again.                                    *)
(***************************************************************************)
IdWrites == 3

InitIds == InitWith({"main", "part_000"}, [writes |-> IdWrites, reads |-> 0])

NextIds ==
    \E p \in Procs :
        \/ Dispatch(p) \/ Return(p)
        \/ Main_addTask_Store(p) \/ Main_addTask_Del(p) \/ Main_addTask_Write(p)
        \/ Main_updateTask_Store(p) \/ Main_updateTask_Del(p)
        \/ Main_updateTask_Write(p)
        \/ Main_deleteTask_Store(p) \/ Main_deleteTask_Del(p)
        \/ Main_deleteTask_Write(p)
        \/ P0_addTask_Store(p) \/ P0_addTask_Write(p)
        \/ P0_updateTask_Store(p) \/ P0_updateTask_Write(p)
        \/ P0_deleteTask_Store(p) \/ P0_deleteTask_Write(p)

SpecIds == InitIds /\ [][NextIds]_vars

(***************************************************************************)
(* C17. Server-assigned builds: nextID is greater than every key of the    *)
(* map, than every identifier assigned by a Create and than every          *)
(* identifier a Create has returned; no step lowers nextID; and the        *)
(* identifier a Create assigns is none that was assigned before, so the    *)
(* identifier of a deleted record is not given out again.                  *)
(***************************************************************************)
C17_CounterAboveIdentifiers ==
    /\ [](ServerAssigned =>
            /\ \A k \in DOMAIN tasks : k < nextID
            /\ \A i \in 1..Len(createLog) : createLog[i] < nextID
            /\ \A i \in 1..Len(returned) : returned[i] < nextID)
    /\ [][ServerAssigned =>
            /\ nextID' >= nextID
            /\ createLog' # createLog
                  => /\ Len(createLog') = Len(createLog) + 1
                     /\ \A i \in 1..Len(createLog) :
                            createLog[i] # createLog'[Len(createLog')]
                     /\ createLog'[Len(createLog')] \notin DOMAIN tasks
                     /\ createLog'[Len(createLog')] \in DOMAIN tasks']_vars

\* record 1 has been created and deleted, and the Create after that has
\* returned identifier 2
C17_Witness ==
    \E p \in Procs :
        /\ ServerAssigned
        /\ req[p].method = "POST" /\ pc[p] = "done" /\ resp[p].status = 201
        /\ resp[p].data[1].id = 2
        /\ createLog = <<1, 2>>
        /\ DOMAIN tasks = {2}
        /\ nextID = 3

(***************************************************************************)
(* C18. The cache entry is a whole snapshot: the bytes a GetAll holds in   *)
(* jsonData are set in one step, the copy of the map taken under the       *)
(* mutex, as a serialization of the complete map as it is at that instant, *)
(* and stay as they are until the request ends; the entry under "tasks"    *)
(* takes a new value only in the Set step of a GetAll that missed, and     *)
(* that value is the request's jsonData.  So a live entry is always the    *)
(* complete contents of the store at one instant at or before now.         *)
(***************************************************************************)
C18_CacheIsSnapshot ==
    [][Cached =>
        /\ \A p \in Procs :
              jsonData'[p] # jsonData[p]
                  => \/ /\ pc'[p] = "idle"
                        /\ jsonData'[p] = <<>>
                     \/ /\ req[p].method = "GET"
                        /\ HasCall(p, "Get", "miss") \/ HasCallIn(calls'[p], "Get", "miss")
                        /\ jsonData[p] = <<>>
                        /\ mutex \in {Free, p}
                        /\ tasks' = tasks
                        /\ jsonData'[p] # <<>>
                        /\ jsonData'[p][1] \in Serializations
        /\ (cache' # cache /\ cache' # <<>>)
              => \E p \in Procs :
                    /\ req[p].method = "GET" /\ pc[p] = "set"
                    /\ HasCall(p, "Get", "miss")
                    /\ HasCallIn(calls'[p], "Set", "ok")
                    /\ cache' = jsonData[p]]_vars

\* a reader's Set has stored a snapshot that the store has left behind: the
\* entry is the complete store of an earlier instant
C18_Witness ==
    /\ Cached
    /\ cache # <<>>
    /\ cache[1] \notin Serializations
    /\ \A p \in Procs : pc[p] \in {"idle", "done"}

(***************************************************************************)
(* C19. part_001, Create with an identifier that is already a key: the     *)
(* store step replaces the record under that key by the payload's and      *)
(* leaves the other records and the set of keys as they were; the request  *)
(* goes on to its one cache Del, after which, when it succeeds, the entry  *)
(* is absent; and the answer is 201 as for any Create, never a conflict.   *)
(***************************************************************************)
C19_CreateReplacesExisting ==
    [][\A p \in Procs :
          ( /\ variant = "part_001"
            /\ req[p].method = "POST" /\ WellFormed(p) /\ Steps(p) )
          => LET t == DecodeP1(req[p].body).task
             IN  /\ (pc[p] = "createTask" /\ t.ID \in DOMAIN tasks)
                    => /\ DOMAIN tasks' = DOMAIN tasks
                       /\ tasks'[t.ID] = t
                       /\ \A k \in DOMAIN tasks \ {t.ID} : tasks'[k] = tasks[k]
                       /\ exists'[p]
                       /\ pc'[p] = "del"
                 /\ (pc[p] = "del" /\ exists[p])
                    => /\ NumCallsIn(calls'[p], "Del") = 1
                       /\ Len(calls'[p]) = 1
                       /\ HasCallIn(calls'[p], "Del", "ok")
                             => (cache' = <<>> /\ pc'[p] = "write")
                 /\ (pc'[p] = "done" /\ exists[p])
                    => /\ resp'[p].status \in {201, 500}
                       /\ HasCallIn(calls'[p], "Del", "ok") => resp'[p].status = 201]_vars

\* an Update had stored {a, B, true}; a Create with id a has since answered
\* 201 and the map holds its record under a, and nothing else
C19_Witness ==
    \E p \in Procs : \E q \in Procs \ {p} :
        /\ variant = "part_001"
        /\ req[q].method = "PUT" /\ req[q].path = "a" /\ pc[q] = "done"
        /\ ~exists[q]
        /\ req[p].method = "POST" /\ pc[p] = "done" /\ resp[p].status = 201
        /\ exists[p]
        /\ tasks = [k \in {"a"} |-> [ID |-> "a", Title |-> "A", Completed |-> FALSE]]

====
